---- MODULE Spec2Model ----
(***************************************************************************)
(* Model of homeassistant/components/dsmr/sensor.py: the reconnect         *)
(* supervisor connect_and_reconnect, the throttled fan-out                 *)
(* update_entities_telegram and the DSMREntity reading views.              *)
(***************************************************************************)
EXTENDS Integers, Sequences, FiniteSets, TLC

\* ------------------------------------------------------------------ bounds
MaxTime == 2          \* clock ticks the model follows
MaxInterval == 1      \* largest configured interval (ticks)
MaxAttempts == 2      \* connect attempts the supervisor may start
MaxPublishes == 4     \* calls of update_entities_telegram
MaxPrecision == 2     \* largest configured rounding precision

\* ------------------------------------------------------------- python values
\* A Python value: None, a str (its characters), or a number held as an
\* integer count of 10^-5 units (Decimal/int/float).
PyNone == [kind |-> "None", chars |-> <<>>, num |-> 0]
PyStr(cs) == [kind |-> "str", chars |-> cs, num |-> 0]
PyNum(n) == [kind |-> "number", chars |-> <<>>, num |-> n]
PyFloat(n) == [kind |-> "float", chars |-> <<>>, num |-> n]
PyRaise(exc) == [kind |-> exc, chars |-> <<>>, num |-> 0]

Str0001 == <<"0", "0", "0", "1">>
Str0002 == <<"0", "0", "0", "2">>
Str0003 == <<"0", "0", "0", "3">>
StrNormal == <<"n", "o", "r", "m", "a", "l">>
StrLow == <<"l", "o", "w">>
StrKW == <<"k", "W">>
StrM3 == <<"m", "3">>

\* --------------------------------------------------------- obis references
ELECTRICITY_ACTIVE_TARIFF == "ELECTRICITY_ACTIVE_TARIFF"
CURRENT_ELECTRICITY_USAGE == "CURRENT_ELECTRICITY_USAGE"
HOURLY_GAS_METER_READING == "HOURLY_GAS_METER_READING"

\* dsmr versions accepted by PLATFORM_SCHEMA
DsmrVersions == {"5L", "5B", "5", "4", "2.2"}

\* The entities built by async_setup_entry, by the obis each one reads.
Devices == {"Power Tariff", "Power Consumption"}
ObisOf(device) ==
    IF device = "Power Tariff" THEN ELECTRICITY_ACTIVE_TARIFF
    ELSE CURRENT_ELECTRICITY_USAGE

\* ---------------------------------------------------------------- telegrams
\* A telegram maps obis references to dsmr objects (value, unit).
DsmrObject(v, u) == [value |-> v, unit |-> u]
EmptyTelegram == [o \in {} |-> DsmrObject(PyNone, PyNone)]

TelegramFull ==
    [o \in {ELECTRICITY_ACTIVE_TARIFF, CURRENT_ELECTRICITY_USAGE} |->
        IF o = ELECTRICITY_ACTIVE_TARIFF
        THEN DsmrObject(PyStr(Str0001), PyNone)
        ELSE DsmrObject(PyNum(123456), PyStr(StrKW))]
TelegramTariffOnly ==
    [o \in {ELECTRICITY_ACTIVE_TARIFF} |-> DsmrObject(PyStr(Str0002), PyNone)]
TelegramGasOnly ==
    [o \in {HOURLY_GAS_METER_READING} |-> DsmrObject(PyNum(74500000), PyStr(StrM3))]

\* Telegrams the parser hands to the telegram callback; a parsed telegram is
\* never the empty mapping.
ReaderTelegrams == {TelegramFull, TelegramTariffOnly, TelegramGasOnly}

\* ------------------------------------------------------------ reading views
Digits == {"0", "1", "2", "3", "4", "5", "6", "7", "8", "9"}
DigitVal(c) ==
    CASE c = "0" -> 0 [] c = "1" -> 1 [] c = "2" -> 2 [] c = "3" -> 3
      [] c = "4" -> 4 [] c = "5" -> 5 [] c = "6" -> 6 [] c = "7" -> 7
      [] c = "8" -> 8 [] c = "9" -> 9

\* Number of fractional decimal digits a number carries in the model.
FracDigits == 5
Pow10(k) == 10 ^ k

RECURSIVE DigitsValue(_)
DigitsValue(cs) ==
    IF cs = <<>> THEN 0
    ELSE 10 * DigitsValue(SubSeq(cs, 1, Len(cs) - 1)) + DigitVal(cs[Len(cs)])

\* ------------------------------------------------------------------ floats
\* A float of the model is the double nearest to a decimal number:
\* PyFloat(n) is the double nearest to n * 10^-FracDigits. A decimal with
\* more fractional digits keeps the integer part and the first FracDigits
\* of them in num and the further ones, without trailing zeros and after a
\* "-" when the number is negative, in chars. The model covers the decimals
\* V * 10^-k with |V| < 2^31 and k <= 9, text of ASCII characters, and
\* none of float()'s overflow to infinity.
Abs(n) == IF n < 0 THEN 0 - n ELSE n
PyInf(sign) == [kind |-> "float", chars |-> <<"i", "n", "f">>, num |-> sign]
PyNan == [kind |-> "float", chars |-> <<"n", "a", "n">>, num |-> 0]

\* The decimal digits of n, in a field of the given width.
RECURSIVE DigitsOf(_, _)
DigitsOf(n, width) ==
    IF width = 0 THEN <<>>
    ELSE Append(DigitsOf(n \div 10, width - 1),
                CHOOSE c \in Digits : DigitVal(c) = n % 10)

\* The float nearest to V * 10^-k.
RECURSIVE MkFloat(_, _)
MkFloat(V, k) ==
    IF k <= FracDigits THEN PyFloat(V * Pow10(FracDigits - k))
    ELSE IF V % 10 = 0 THEN MkFloat(V \div 10, k - 1)
    ELSE LET extra == k - FracDigits
             sign == IF V < 0 THEN 0 - 1 ELSE 1
         IN  [kind |-> "float",
              chars |-> (IF V < 0 THEN <<"-">> ELSE <<>>)
                          \o DigitsOf(Abs(V) % Pow10(extra), extra),
              num |-> sign * (Abs(V) \div Pow10(extra))]

\* The parts of a float: its further digits, whether it is a number, its
\* sign, and the decimal FloatAbs * 10^-FloatK it is nearest to.
TailDigits(f) ==
    IF f.chars # <<>> /\ f.chars[1] = "-" THEN Tail(f.chars) ELSE f.chars
IsFinite(f) == \A i \in 1..Len(TailDigits(f)) : TailDigits(f)[i] \in Digits
FloatNeg(f) == f.num < 0 \/ (f.chars # <<>> /\ f.chars[1] = "-")
FloatK(f) == FracDigits + Len(TailDigits(f))
FloatAbs(f) ==
    Abs(f.num) * Pow10(Len(TailDigits(f))) + DigitsValue(TailDigits(f))

\* ------------------------------------------------------------ float(text)
\* float(str) strips white space, takes a sign, and then reads inf,
\* infinity or nan in any case, or a decimal number with an optional
\* exponent, in which single underscores may stand between digits.
\* The white space of ASCII text: the space, the tab, the line feed, the
\* carriage return, the form feed and the vertical tab (character 11,
\* written as itself: the language has no escape for it).
VerticalTab == ""
Whitespace == {" ", "\t", "\n", "\r", "\f", VerticalTab}
Lower(c) ==
    CASE c = "A" -> "a" [] c = "E" -> "e" [] c = "F" -> "f" [] c = "I" -> "i"
      [] c = "N" -> "n" [] c = "T" -> "t" [] c = "Y" -> "y" [] OTHER -> c
LowerSeq(cs) == [i \in 1..Len(cs) |-> Lower(cs[i])]
Strip(cs) ==
    LET ns == {i \in 1..Len(cs) : cs[i] \notin Whitespace}
    IN  IF ns = {} THEN <<>>
        ELSE SubSeq(cs, CHOOSE i \in ns : \A j \in ns : i <= j,
                        CHOOSE i \in ns : \A j \in ns : i >= j)
Unsigned(cs) == IF cs # <<>> /\ cs[1] \in {"+", "-"} THEN Tail(cs) ELSE cs
UnderscoresOk(cs) ==
    \A i \in 1..Len(cs) :
        cs[i] = "_" => /\ i > 1 /\ i < Len(cs)
                       /\ cs[i - 1] \in Digits /\ cs[i + 1] \in Digits
WithoutUnderscores(cs) == SelectSeq(cs, LAMBDA c : c # "_")

\* The mantissa and the exponent of a number: the text before and after
\* the first e.
ExpMarks(cs) == {i \in 1..Len(cs) : Lower(cs[i]) = "e"}
ExpMark(cs) ==
    IF ExpMarks(cs) = {} THEN Len(cs) + 1
    ELSE CHOOSE i \in ExpMarks(cs) : \A j \in ExpMarks(cs) : i <= j
Mantissa(cs) == SubSeq(cs, 1, ExpMark(cs) - 1)
Exponent(cs) == SubSeq(cs, ExpMark(cs) + 1, Len(cs))
IsDigits(cs) == cs # <<>> /\ \A i \in 1..Len(cs) : cs[i] \in Digits
IsMantissa(cs) ==
    /\ \A i \in 1..Len(cs) : cs[i] \in Digits \cup {"."}
    /\ Cardinality({i \in 1..Len(cs) : cs[i] = "."}) <= 1
    /\ \E i \in 1..Len(cs) : cs[i] \in Digits
IsNumberLiteral(cs) ==
    /\ UnderscoresOk(cs)
    /\ LET body == WithoutUnderscores(cs)
       IN  /\ IsMantissa(Mantissa(body))
           /\ ExpMarks(body) # {} => IsDigits(Unsigned(Exponent(body)))
InfWords == {<<"i", "n", "f">>, <<"i", "n", "f", "i", "n", "i", "t", "y">>}
NanWords == {<<"n", "a", "n">>}

\* Whether float(str) accepts the text; any other text is a ValueError.
FloatAccepts(cs) ==
    LET body == Unsigned(Strip(cs))
    IN  \/ LowerSeq(body) \in InfWords \cup NanWords
        \/ IsNumberLiteral(body)

\* float(str) of a text it accepts.
ParseFloat(cs) ==
    LET s == Strip(cs)
        neg == s[1] = "-"
        body == WithoutUnderscores(Unsigned(s))
        mant == Mantissa(body)
        expo == Exponent(body)
        dots == {i \in 1..Len(mant) : mant[i] = "."}
        dot == IF dots = {} THEN Len(mant) + 1 ELSE CHOOSE i \in dots : TRUE
        frac == SubSeq(mant, dot + 1, Len(mant))
        digits == SubSeq(mant, 1, dot - 1) \o frac
        e == IF ExpMarks(body) = {} THEN 0
             ELSE IF expo[1] = "-" THEN 0 - DigitsValue(Unsigned(expo))
             ELSE DigitsValue(Unsigned(expo))
        k == Len(frac) - e
        V == IF k < 0 THEN DigitsValue(digits) * Pow10(0 - k)
             ELSE DigitsValue(digits)
    IN  IF LowerSeq(body) \in InfWords THEN PyInf(IF neg THEN 0 - 1 ELSE 1)
        ELSE IF LowerSeq(body) \in NanWords THEN PyNan
        ELSE MkFloat(IF neg THEN 0 - V ELSE V, IF k < 0 THEN 0 ELSE k)

\* float(value): the number, or the exception float() raises.
PyFloatOf(value) ==
    CASE value.kind = "None" -> PyRaise("TypeError")
      [] value.kind = "str" ->
            IF FloatAccepts(value.chars)
            THEN ParseFloat(value.chars)
            ELSE PyRaise("ValueError")
      [] OTHER -> PyFloat(value.num)

\* ------------------------------------------------------- round(float, n)
\* A double has MantissaBits bits after its leading one.
MantissaBits == 52

\* The greatest L with 2^L <= n, for n >= 1.
RECURSIVE FloorLog2(_)
FloorLog2(n) == IF n < 2 THEN 0 ELSE 1 + FloorLog2(n \div 2)

\* The least s >= 1 with V * 2^s >= bound, for 0 < V < bound.
RECURSIVE ShiftsToReach(_, _)
ShiftsToReach(V, bound) ==
    IF 2 * V >= bound THEN 1 ELSE 1 + ShiftsToReach(2 * V, bound)

\* r * 2^j modulo D.
RECURSIVE TimesPow2Mod(_, _, _)
TimesPow2Mod(r, j, D) ==
    IF j = 0 THEN r % D ELSE TimesPow2Mod((2 * r) % D, j - 1, D)

\* On which side of V * 10^-k (V >= 1) the double nearest to it lies: -1
\* below, 0 on it, 1 above. The double is M * 2^-e with M the integer
\* nearest to V * 2^(e-k) / 5^k in 2^52 .. 2^53; the remainder of that
\* division tells the side.
DoubleSide(V, k) ==
    LET D == 5 ^ k
        L == IF V >= Pow10(k) THEN FloorLog2(V \div Pow10(k))
             ELSE 0 - ShiftsToReach(V, Pow10(k))
        rest == TimesPow2Mod(V % D, MantissaBits - L - k, D)
    IN  IF rest = 0 THEN 0 ELSE IF 2 * rest < D THEN 0 - 1 ELSE 1

\* round(x, ndigits) of a float: the multiple of 10^-ndigits nearest to
\* the double; the double is on a tie only if it is the decimal tie
\* itself, and that tie goes to the even neighbour.
PyRoundFloat(f, ndigits) ==
    IF ~IsFinite(f) \/ ndigits >= FloatK(f) THEN f
    ELSE LET a == FloatAbs(f)
             g == Pow10(FloatK(f) - ndigits)
             q == a \div g
             r == a % g
             up == \/ 2 * r > g
                   \/ /\ 2 * r = g
                      /\ \/ DoubleSide(a, FloatK(f)) = 1
                         \/ DoubleSide(a, FloatK(f)) = 0 /\ q % 2 = 1
             m == IF up THEN q + 1 ELSE q
         IN  MkFloat(IF FloatNeg(f) THEN 0 - m ELSE m, ndigits)

\* round(x, ndigits) of the double nearest to n * 10^-FracDigits, in the
\* same unit.
PyRound(n, ndigits) == PyRoundFloat(PyFloat(n), ndigits).num

\* Variants of the definitions below, as a slip in the code would leave them.
get_dsmr_object_attr_blank(obis, telegram, attribute) ==
    IF obis \notin DOMAIN telegram THEN PyStr(<<>>)
    ELSE IF attribute = "value" THEN telegram[obis].value
    ELSE IF attribute = "unit" THEN telegram[obis].unit
    ELSE PyNone
translate_tariff_no_swap(value, dsmr_version) ==
    IF value = PyStr(Str0002) THEN PyStr(StrNormal)
    ELSE IF value = PyStr(Str0001) THEN PyStr(StrLow)
    ELSE PyNone

\* DSMREntity.get_dsmr_object_attr
get_dsmr_object_attr(obis, telegram, attribute) ==
    IF obis \notin DOMAIN telegram THEN PyNone
    ELSE IF attribute = "value" THEN telegram[obis].value
    ELSE IF attribute = "unit" THEN telegram[obis].unit
    ELSE PyNone

\* DSMREntity.translate_tariff
translate_tariff(value, dsmr_version) ==
    LET swapped ==
            IF dsmr_version \in {"5B"}
            THEN IF value = PyStr(Str0001) THEN PyStr(Str0002)
                 ELSE IF value = PyStr(Str0002) THEN PyStr(Str0001)
                 ELSE value
            ELSE value
    IN  IF swapped = PyStr(Str0002) THEN PyStr(StrNormal)
        ELSE IF swapped = PyStr(Str0001) THEN PyStr(StrLow)
        ELSE PyNone

\* DSMREntity.state
state(obis, telegram, dsmr_version, precision) ==
    LET value == get_dsmr_object_attr(obis, telegram, "value")
        f == PyFloatOf(value)
    IN  IF obis = ELECTRICITY_ACTIVE_TARIFF
        THEN translate_tariff(value, dsmr_version)
        ELSE IF f.kind = "TypeError" THEN value
        ELSE IF f.kind = "ValueError" THEN f
        ELSE PyRoundFloat(f, precision)

\* DSMREntity.unit_of_measurement
unit_of_measurement(obis, telegram) ==
    get_dsmr_object_attr(obis, telegram, "unit")

\* ------------------------------------------------------------------ throttle
\* homeassistant.util.Throttle: the wrapped method runs when it never ran
\* or when more than min_time has passed since it last ran.
NeverRan == 0 - 1
Throttle(min_time, last_run, utcnow) ==
    \/ last_run = NeverRan
    \/ utcnow - last_run > min_time

\* Variants of the definitions below, as a slip in the code would leave them.
ShouldForward_undecorated(min_time, last_run, utcnow) == TRUE
ShouldForward_inverted(min_time, last_run, utcnow) ==
    \/ last_run = NeverRan
    \/ utcnow - last_run < min_time
update_data_only_if_present(obis, old_telegram, telegram) ==
    IF obis \in DOMAIN telegram THEN telegram ELSE old_telegram
writes_ha_state_unconditional(has_hass, obis, telegram) == has_hass

\* The decorator on update_entities_telegram: whether this call runs the body.
ShouldForward(min_time, last_run, utcnow) == Throttle(min_time, last_run, utcnow)

\* DSMREntity.update_data: the telegram the device stores after the call.
update_data(obis, old_telegram, telegram) == telegram

\* DSMREntity.update_data: whether the device calls async_write_ha_state.
writes_ha_state(has_hass, obis, telegram) ==
    has_hass /\ obis \in DOMAIN telegram

\* ------------------------------------------------------------------- state
VARIABLES
    min_time_between_updates, \* options[CONF_TIME_BETWEEN_UPDATE], at least 1
    reconnect_interval,       \* config[CONF_RECONNECT_INTERVAL]
    now,                      \* the clock, in whole seconds
    hass_state,               \* hass.state: running, stopping, final_write,
                              \* stopped (every state after final_write)
    listeners,                \* registered EVENT_HOMEASSISTANT_STOP listeners
    tstate,                   \* each transport: unopened, open, closing, closed
    closers,                  \* who called close() on each transport
    pc,                       \* where connect_and_reconnect is suspended
    transport, protocol,      \* its locals (NoHandle is None)
    stop_listener,
    cancelled,                \* task.cancel() was called on it
    cancelled_in,             \* where it was suspended at that moment
    attempts,                 \* reader_factory() calls started
    sleep_until,              \* when the asyncio.sleep in flight ends
    throttle_last,            \* Throttle's last-run time of the dispatcher
    telegram,                 \* each device's self.telegram
    hass,                     \* each device's self.hass is set
    written,                  \* devices that wrote their state in the last call
    calls,                    \* observed calls of update_entities_telegram
    dropped,                  \* how many of them the throttle suppressed
    last_call,                \* the latest observed call
    forwarded_arg,            \* the argument of the latest one that ran
    forward_at,               \* when an observed call last ran the body
    forward_gap,              \* time between the latest two that ran it
    probe                     \* a reading-view function applied to an input

cfgVars == <<min_time_between_updates, reconnect_interval>>
hostVars == <<hass_state, listeners, tstate, closers>>
supLocals == <<transport, protocol, stop_listener>>
cancelVars == <<cancelled, cancelled_in>>
supVars == <<pc, supLocals, cancelVars, attempts, sleep_until>>
pubVars == <<throttle_last, telegram, written>>
obsVars == <<calls, dropped, last_call, forwarded_arg, forward_at, forward_gap>>
vars == <<cfgVars, now, hostVars, supVars, pubVars, obsVars, hass, probe>>

NoHandle == 0
Handles == 1..MaxAttempts
NoCall == [arg |-> EmptyTelegram, forwarded |-> FALSE]
NoProbe == [fn |-> "none", value |-> PyNone, dsmr_version |-> "5",
            precision |-> 0, done |-> FALSE, result |-> PyNone]

\* hass.is_stopping
is_stopping == hass_state \in {"stopping", "final_write"}

\* A loop that is left whenever its condition is tested.
loop_continues_never(core_state) == FALSE

\* The condition of the while loop of connect_and_reconnect.
loop_continues(core_state) == core_state # "stopping"

Init ==
    /\ min_time_between_updates \in 1..MaxInterval
    /\ reconnect_interval \in 0..MaxInterval
    /\ now = 0
    /\ hass_state = "running"
    /\ listeners = {}
    /\ tstate = [h \in Handles |-> "unopened"]
    /\ closers = [h \in Handles |-> {}]
    /\ pc = "start"
    /\ transport = NoHandle
    /\ protocol = NoHandle
    /\ stop_listener = NoHandle
    /\ cancelled = FALSE
    /\ cancelled_in = "none"
    /\ attempts = 0
    /\ sleep_until = 0
    /\ throttle_last = NeverRan
    /\ telegram = [d \in Devices |-> EmptyTelegram]
    /\ hass = [d \in Devices |-> FALSE]
    /\ written = {}
    /\ calls = 0
    /\ dropped = 0
    /\ forwarded_arg = EmptyTelegram
    /\ last_call = NoCall
    /\ forward_at = NeverRan
    /\ forward_gap = NeverRan
    /\ probe = NoProbe

\* ------------------------------------------------ update_entities_telegram
\* A dispatcher whose suppressed calls still reach the devices' telegrams.
update_entities_telegram_always_stores(arg) ==
    /\ telegram' = [d \in Devices |-> arg]
    /\ IF ShouldForward(min_time_between_updates, throttle_last, now)
       THEN /\ written' = {d \in Devices :
                              writes_ha_state(hass[d], ObisOf(d), arg)}
            /\ throttle_last' = now
       ELSE /\ written' = {}
            /\ UNCHANGED throttle_last

\* One call of the throttled update_entities_telegram(arg): when the
\* throttle lets it run, every device stores arg and the devices that have
\* their obis in it write their state.
update_entities_telegram(arg) ==
    IF ShouldForward(min_time_between_updates, throttle_last, now)
    THEN /\ telegram' = [d \in Devices |->
                           update_data(ObisOf(d), telegram[d], arg)]
         /\ written' = {d \in Devices :
                           writes_ha_state(hass[d], ObisOf(d), arg)}
         /\ throttle_last' = now
    ELSE /\ UNCHANGED <<telegram, throttle_last>>
         /\ written' = {}

\* ------------------------------------------------------- host and transport
\* Time passes.
Tick ==
    /\ now < MaxTime
    /\ now' = now + 1
    /\ UNCHANGED <<cfgVars, hostVars, supVars, pubVars, obsVars, hass, probe>>

\* The entity platform adds a device: its self.hass is set.
add_to_platform(d) ==
    /\ ~hass[d]
    /\ hass' = [hass EXCEPT ![d] = TRUE]
    /\ UNCHANGED <<cfgVars, now, hostVars, supVars, pubVars, obsVars, probe>>

\* transport.close(): an open transport starts closing, else nothing.
transport_close(ts, h) ==
    IF ts[h] = "open" THEN [ts EXCEPT ![h] = "closing"] ELSE ts

\* The host stops: hass.state becomes stopping and EVENT_HOMEASSISTANT_STOP
\* fires; every listen_once listener runs transport.close and is removed.
host_stop ==
    /\ hass_state = "running"
    /\ hass_state' = "stopping"
    /\ tstate' = [h \in Handles |->
                    IF h \in listeners THEN transport_close(tstate, h)[h]
                    ELSE tstate[h]]
    /\ closers' = [h \in Handles |->
                     IF h \in listeners THEN closers[h] \cup {"hook"}
                     ELSE closers[h]]
    /\ listeners' = {}
    /\ UNCHANGED <<cfgVars, now, supVars, pubVars, obsVars, hass, probe>>

\* The later stages of the host's shutdown.
host_final_write ==
    /\ hass_state = "stopping"
    /\ hass_state' = "final_write"
    /\ UNCHANGED <<cfgVars, now, listeners, tstate, closers, supVars, pubVars,
                   obsVars, hass, probe>>

host_stopped ==
    /\ hass_state = "final_write"
    /\ hass_state' = "stopped"
    /\ UNCHANGED <<cfgVars, now, listeners, tstate, closers, supVars, pubVars,
                   obsVars, hass, probe>>

\* The connection of transport h ends (closed, or lost by an error):
\* protocol.wait_closed() of it resolves from now on.
connection_lost(h) ==
    /\ tstate[h] \in {"open", "closing"}
    /\ tstate' = [tstate EXCEPT ![h] = "closed"]
    /\ UNCHANGED <<cfgVars, now, hass_state, listeners, closers, supVars,
                   pubVars, obsVars, hass, probe>>

\* The reader of an open transport parsed a telegram and calls the
\* telegram callback.
telegram_received(t) ==
    /\ \E h \in Handles : tstate[h] = "open"
    /\ update_entities_telegram(t)
    /\ UNCHANGED <<cfgVars, now, hostVars, supVars, obsVars, hass, probe>>

\* async_unload_entry cancels the task.
cancel_task ==
    /\ ~cancelled
    /\ pc # "done"
    /\ cancelled' = TRUE
    /\ cancelled_in' = pc
    /\ UNCHANGED <<cfgVars, now, hostVars, pc, supLocals, attempts,
                   sleep_until, pubVars, obsVars, hass, probe>>

\* ------------------------------------------------------ connect_and_reconnect
\* The head of the while loop: start the next reader_factory() call, or
\* leave the loop and return.
loop_head ==
    IF loop_continues(hass_state)
    THEN /\ attempts < MaxAttempts
         /\ attempts' = attempts + 1
         /\ pc' = "open"
    ELSE /\ attempts' = attempts
         /\ pc' = "done"

\* The task runs for the first time.
sup_start ==
    /\ pc = "start"
    /\ ~cancelled
    /\ loop_head
    /\ UNCHANGED <<cfgVars, now, hostVars, supLocals, cancelVars, sleep_until,
                   pubVars, obsVars, hass, probe>>

\* The reader_factory() task finishes with a connected transport: the
\* transport is open and its reader runs; the awaiting task is scheduled
\* to resume and has not run yet.
reader_connects ==
    /\ pc = "open"
    /\ ~cancelled
    /\ tstate' = [tstate EXCEPT ![attempts] = "open"]
    /\ pc' = "opened"
    /\ UNCHANGED <<cfgVars, now, hass_state, listeners, closers, supLocals,
                   cancelVars, attempts, sleep_until, pubVars, obsVars, hass,
                   probe>>

\* What the supervisor does with its stop listener once wait_closed()
\* resolved: the listeners still registered.
after_session_listeners(ls, sl, stopping) ==
    IF ~stopping THEN ls \ {sl} ELSE ls

\* A wait that resolves whatever the state of the transport.
wait_closed_resolved_at_once(ts, p) == TRUE

\* await protocol.wait_closed() resumes its caller once the connection of
\* the protocol is closed.
wait_closed_resolved(ts, p) == ts[p] = "closed"

\* The task resumes with the transport and the protocol of the reader,
\* registers transport.close as listener of the stop event and awaits
\* protocol.wait_closed(). When the connection was lost before the task
\* resumed, that await does not suspend: the same step ends the session,
\* publishes the empty telegram and starts the sleep.
open_succeeds ==
    /\ pc = "opened"
    /\ ~cancelled
    /\ stop_listener' = attempts
    /\ IF wait_closed_resolved(tstate, attempts)
       THEN /\ listeners' = after_session_listeners(listeners \cup {attempts},
                                                    attempts, is_stopping)
            /\ transport' = NoHandle
            /\ protocol' = NoHandle
            /\ update_entities_telegram(EmptyTelegram)
            /\ sleep_until' = now + reconnect_interval
            /\ pc' = "sleep"
       ELSE /\ listeners' = listeners \cup {attempts}
            /\ transport' = attempts
            /\ protocol' = attempts
            /\ pc' = "wait_closed"
            /\ UNCHANGED <<sleep_until, pubVars>>
    /\ UNCHANGED <<cfgVars, now, hass_state, tstate, closers, cancelVars,
                   attempts, obsVars, hass, probe>>

\* reader_factory() returns without a transport (the test of line 227
\* fails; the reader factories of dsmr_parser return one): no listener, no
\* session, the empty telegram and the sleep.
open_returns_no_transport ==
    /\ pc = "open"
    /\ ~cancelled
    /\ transport' = NoHandle
    /\ protocol' = NoHandle
    /\ update_entities_telegram(EmptyTelegram)
    /\ sleep_until' = now + reconnect_interval
    /\ pc' = "sleep"
    /\ UNCHANGED <<cfgVars, now, hostVars, stop_listener, cancelVars,
                   attempts, obsVars, hass, probe>>

\* reader_factory() raises SerialException or OSError.
open_fails ==
    /\ pc = "open"
    /\ ~cancelled
    /\ transport' = NoHandle
    /\ protocol' = NoHandle
    /\ loop_head
    /\ UNCHANGED <<cfgVars, now, hostVars, stop_listener, cancelVars,
                   sleep_until, pubVars, obsVars, hass, probe>>

\* protocol.wait_closed() resolves: the session is over.
wait_closed_returns ==
    /\ pc = "wait_closed"
    /\ ~cancelled
    /\ wait_closed_resolved(tstate, protocol)
    /\ listeners' = after_session_listeners(listeners, stop_listener,
                                            is_stopping)
    /\ transport' = NoHandle
    /\ protocol' = NoHandle
    /\ update_entities_telegram(EmptyTelegram)
    /\ sleep_until' = now + reconnect_interval
    /\ pc' = "sleep"
    /\ UNCHANGED <<cfgVars, now, hass_state, tstate, closers, stop_listener,
                   cancelVars, attempts, obsVars, hass, probe>>

\* A sleep that does not wait.
sleep_is_over_at_once(t, until) == TRUE

\* asyncio.sleep(seconds) started at time until - seconds resumes its caller
\* no earlier than at time until.
sleep_is_over(t, until) == t >= until

\* asyncio.sleep(reconnect_interval) is over.
sleep_returns ==
    /\ pc = "sleep"
    /\ ~cancelled
    /\ sleep_is_over(now, sleep_until)
    /\ loop_head
    /\ UNCHANGED <<cfgVars, now, hostVars, supLocals, cancelVars, sleep_until,
                   pubVars, obsVars, hass, probe>>

\* Variants of the definitions below, as a slip in the code would leave them:
\* the handler does not close the transport; the handler does not return.
cancel_tstate_no_close(ts, tr) == ts
cancel_pc_no_return(ts, pr) ==
    IF pr # NoHandle /\ ts[pr] # "closed" THEN "cancel_wait" ELSE "open"

\* The CancelledError handler: the listeners and transports it leaves, and
\* where the task is afterwards.
cancel_listeners(ls, sl) == IF sl # NoHandle THEN ls \ {sl} ELSE ls
cancel_tstate(ts, tr) == IF tr # NoHandle THEN transport_close(ts, tr) ELSE ts
cancel_pc(ts, pr) ==
    IF pr # NoHandle /\ ts[pr] # "closed" THEN "cancel_wait" ELSE "done"

\* The task is cancelled while suspended in the try block.
handle_cancel ==
    /\ cancelled
    /\ pc \in {"open", "opened", "wait_closed", "sleep"}
    /\ listeners' = cancel_listeners(listeners, stop_listener)
    /\ tstate' = cancel_tstate(tstate, transport)
    /\ closers' = IF transport # NoHandle
                  THEN [closers EXCEPT ![transport] = @ \cup {"supervisor"}]
                  ELSE closers
    /\ pc' = cancel_pc(tstate', protocol)
    /\ UNCHANGED <<cfgVars, now, hass_state, supLocals, cancelVars, attempts,
                   sleep_until, pubVars, obsVars, hass, probe>>

\* The task is cancelled before it ever ran.
cancel_before_start ==
    /\ cancelled
    /\ pc = "start"
    /\ pc' = "done"
    /\ UNCHANGED <<cfgVars, now, hostVars, supLocals, cancelVars, attempts,
                   sleep_until, pubVars, obsVars, hass, probe>>

\* protocol.wait_closed() in the CancelledError handler resolves.
cancel_wait_returns ==
    /\ pc = "cancel_wait"
    /\ tstate[protocol] = "closed"
    /\ pc' = "done"
    /\ UNCHANGED <<cfgVars, now, hostVars, supLocals, cancelVars, attempts,
                   sleep_until, pubVars, obsVars, hass, probe>>

Supervisor ==
    \/ sup_start
    \/ open_succeeds
    \/ open_returns_no_transport
    \/ open_fails
    \/ wait_closed_returns
    \/ sleep_returns
    \/ handle_cancel
    \/ cancel_before_start
    \/ cancel_wait_returns

\* A transport on which close() was called reports its closure.
closing_completes == \E h \in Handles : tstate[h] = "closing" /\ connection_lost(h)

Next ==
    \/ Tick
    \/ \E d \in Devices : add_to_platform(d)
    \/ host_stop
    \/ host_final_write
    \/ host_stopped
    \/ reader_connects
    \/ \E h \in Handles : connection_lost(h)
    \/ \E t \in ReaderTelegrams : telegram_received(t)
    \/ cancel_task
    \/ Supervisor

Spec == Init /\ [][Next]_vars

\* The event loop resumes the task whenever it can run, and a transport that
\* was closed reports its closure.
FairSpec == Spec /\ WF_vars(Supervisor) /\ WF_vars(closing_completes)

\* ------------------------------------------------------- the supervisor alone
\* The task, its transports, the host's stop and the clock, without the
\* telegrams of the reader and the devices' platform, which the task never
\* reads; the task's steps and the closing of a transport are taken
\* whenever they can be, and time passes.
NextSupervision ==
    \/ Tick
    \/ host_stop
    \/ host_final_write
    \/ host_stopped
    \/ reader_connects
    \/ \E h \in Handles : connection_lost(h)
    \/ cancel_task
    \/ Supervisor

FairTimeSpec ==
    /\ Init /\ [][NextSupervision]_vars
    /\ WF_vars(Supervisor) /\ WF_vars(closing_completes) /\ WF_vars(Tick)

\* ------------------------------------------------------- the dispatcher alone
\* Any sequence of calls of update_entities_telegram, each one observed:
\* whether it ran the body, with what argument, and how long after the
\* previous one that ran.
PublishedTelegrams == ReaderTelegrams \cup {EmptyTelegram}

publish(arg) ==
    LET ran == ShouldForward(min_time_between_updates, throttle_last, now)
    IN  /\ calls < MaxPublishes
        /\ update_entities_telegram(arg)
        /\ calls' = calls + 1
        /\ dropped' = IF ran THEN dropped ELSE dropped + 1
        /\ last_call' = [arg |-> arg, forwarded |-> ran]
        /\ forwarded_arg' = IF ran THEN arg ELSE forwarded_arg
        /\ forward_at' = IF ran THEN now ELSE forward_at
        /\ forward_gap' = IF ran /\ forward_at # NeverRan THEN now - forward_at
                          ELSE forward_gap
        /\ UNCHANGED <<cfgVars, now, hostVars, supVars, hass, probe>>

NextDispatch ==
    \/ Tick
    \/ \E d \in Devices : add_to_platform(d)
    \/ \E t \in PublishedTelegrams : publish(t)

SpecDispatch == Init /\ [][NextDispatch]_vars

\* ---------------------------------------------------- the reading functions
\* Raw values of a tariff object: rate codes, other text, numbers, None.
TariffValues ==
    {PyNone, PyStr(Str0001), PyStr(Str0002), PyStr(Str0003), PyStr(<<>>),
     PyStr(<<"1">>), PyStr(<<"2">>), PyStr(<<"0", "0", "0", "0">>),
     PyStr(<<"0", "0", "1">>), PyStr(<<"0", "0", "0", "1", "0">>),
     PyStr(StrNormal), PyStr(StrLow), PyNum(Pow10(FracDigits)),
     PyNum(2 * Pow10(FracDigits))}

\* Raw values of a non-tariff object: numbers, numeric text, other text, None.
StrAbc == <<"a", "b", "c">>
ReadingValues ==
    {PyNone, PyNum(123456), PyNum(0), PyNum(125000), PyNum(135000),
     PyNum(267500), PyNum(15000), PyNum(0 - 245000),
     PyStr(<<"1", ".", "2", "3", "4", "5", "6">>), PyStr(<<"4", "2">>),
     PyStr(<<"1", ".", "2", "3", "4", "5", "6", "7">>),
     PyStr(<<"-", "1", ".", "5">>), PyStr(<<" ", "4", "2", " ">>),
     PyStr(<<" ", VerticalTab, "4", "2", "\t">>),
     PyStr(<<"1", "e", "3">>), PyStr(<<"1", "_", "0">>),
     PyStr(<<"2", ".", "6", "7", "5">>), PyStr(<<"-", ".", "0", "0", "5">>),
     PyStr(<<"i", "n", "f">>), PyStr(<<"N", "a", "N">>),
     PyStr(StrAbc), PyStr(<<>>), PyStr(<<"1", ".", "2", ".", "3">>),
     PyStr(<<"1", "_">>), PyStr(<<"+">>), PyStr(<<"1", "e">>)}

\* The telegram in which the object of obis has the given value.
TelegramWith(obis, value) ==
    [o \in {obis} |-> DsmrObject(value, PyStr(StrKW))]

InitView ==
    /\ min_time_between_updates = 1
    /\ reconnect_interval = 0
    /\ now = 0
    /\ hass_state = "running"
    /\ listeners = {}
    /\ tstate = [h \in Handles |-> "unopened"]
    /\ closers = [h \in Handles |-> {}]
    /\ pc = "start"
    /\ transport = NoHandle
    /\ protocol = NoHandle
    /\ stop_listener = NoHandle
    /\ cancelled = FALSE
    /\ cancelled_in = "none"
    /\ attempts = 0
    /\ sleep_until = 0
    /\ throttle_last = NeverRan
    /\ telegram = [d \in Devices |-> EmptyTelegram]
    /\ hass = [d \in Devices |-> FALSE]
    /\ written = {}
    /\ calls = 0
    /\ dropped = 0
    /\ forwarded_arg = EmptyTelegram
    /\ last_call = NoCall
    /\ forward_at = NeverRan
    /\ forward_gap = NeverRan
    /\ probe \in [fn : {"translate_tariff"}, value : TariffValues,
                  dsmr_version : DsmrVersions, precision : {0},
                  done : {FALSE}, result : {PyNone}]
                 \cup
                 [fn : {"state"}, value : ReadingValues,
                  dsmr_version : {"5", "5B"}, precision : 0..MaxPrecision,
                  done : {FALSE}, result : {PyNone}]

\* DSMREntity.translate_tariff(value, dsmr_version) is called.
call_translate_tariff ==
    /\ probe.fn = "translate_tariff"
    /\ ~probe.done
    /\ probe' = [probe EXCEPT
                   !.done = TRUE,
                   !.result = translate_tariff(probe.value, probe.dsmr_version)]
    /\ UNCHANGED <<cfgVars, now, hostVars, supVars, pubVars, obsVars, hass>>

\* DSMREntity.state is read on a device of a non-tariff obis whose object
\* has the given raw value.
call_state ==
    /\ probe.fn = "state"
    /\ ~probe.done
    /\ probe' = [probe EXCEPT
                   !.done = TRUE,
                   !.result = state(CURRENT_ELECTRICITY_USAGE,
                                    TelegramWith(CURRENT_ELECTRICITY_USAGE,
                                                 probe.value),
                                    probe.dsmr_version, probe.precision)]
    /\ UNCHANGED <<cfgVars, now, hostVars, supVars, pubVars, obsVars, hass>>

NextView ==
    \/ call_translate_tariff
    \/ call_state

SpecView == InitView /\ [][NextView]_vars

\* ===================================================================== claims
Precisions == 0..MaxPrecision

\* What currentValue() of a device returns for every dialect and precision.
ReadsAbsent(d) ==
    \A ver \in DsmrVersions, prec \in Precisions :
        state(ObisOf(d), telegram[d], ver, prec) = PyNone

\* C1 (as claimed): once a connected session has ended by transport
\* termination (the supervisor is in its backoff sleep), the devices hold
\* the empty telegram and every device reads absent.
C1_DisconnectResets ==
    pc = "sleep" =>
        \A d \in Devices : telegram[d] = EmptyTelegram /\ ReadsAbsent(d)

\* C2 (as claimed): when connect_and_reconnect has terminated, no transport
\* it opened is still open and no stop listener it registered is still
\* registered.
C2_NoLeakOnExit ==
    pc = "done" =>
        /\ \A h \in Handles : tstate[h] \in {"unopened", "closed"}
        /\ listeners = {}

\* C5: a task cancelled during the backoff sleep goes nowhere but to its
\* end, in its next step, and starts no reader_factory() call; once ended
\* it stays ended.
C5_CancelDuringSleep ==
    [][/\ (cancelled /\ pc = "sleep") =>
            (pc' \in {"sleep", "done"} /\ attempts' = attempts)
       /\ (pc = "done") => (pc' = "done" /\ attempts' = attempts)]_vars

C5_Witness == pc = "done" /\ cancelled_in = "sleep"

\* C6 (as claimed): a task that ended after a cancellation has left no
\* transport open or closing: one that was open when the task was
\* cancelled was closed by it, and its closure awaited.
C6_CancelClosesOpenTransport ==
    (pc = "done" /\ cancelled) =>
        \A h \in Handles : tstate[h] \in {"unopened", "closed"}

\* The part of C6 that holds: a cancelled task always ends, and a task
\* cancelled while it waited for its reader to close has called close() on
\* the transport and ends only once the transport is closed.
C6_CancelTerminates ==
    /\ [](pc = "done" /\ cancelled_in = "wait_closed" =>
            /\ "supervisor" \in closers[transport]
            /\ tstate[transport] = "closed")
    /\ (cancelled ~> pc = "done")

C6_Witness ==
    /\ pc = "done"
    /\ cancelled_in = "wait_closed"
    /\ closers[transport] = {"supervisor"}

\* An observed call is due when no call ran the body yet or more than the
\* interval has passed since one did.
Due == forward_at = NeverRan \/ now - forward_at > min_time_between_updates
Called == calls' = calls + 1
HasObis(d, t) == ObisOf(d) \in DOMAIN t

\* C3: any two consecutive runs of the body of update_entities_telegram are
\* more than min_time_between_updates apart.
C3_ThrottleRateBound ==
    forward_gap # NeverRan => forward_gap > min_time_between_updates

C3_Witness == forward_gap # NeverRan /\ dropped > 0

\* C4: a call that is due runs the body at once; a call that runs the body
\* leaves every device with exactly its argument; and the devices' telegrams
\* change in no other step, so a suppressed argument reaches no device.
C4_LeadingEdge ==
    [][/\ (Called /\ Due) => last_call'.forwarded
       /\ (Called /\ last_call'.forwarded) =>
            \A d \in Devices : telegram'[d] = last_call'.arg
       /\ (telegram' # telegram) => (Called /\ last_call'.forwarded)]_vars

C4_Witness ==
    /\ last_call.forwarded
    /\ dropped > 0
    /\ forward_gap # NeverRan
    /\ \A d \in Devices : telegram[d] = last_call.arg

\* C7: every device stores the argument of the latest call that ran the
\* body, whether or not its obis is in it.
C7_ForwardUpdatesEveryView ==
    \A d \in Devices : telegram[d] = forwarded_arg

C7_Witness ==
    /\ forward_gap # NeverRan
    /\ last_call.forwarded
    /\ last_call.arg = EmptyTelegram
    /\ \A d \in Devices : telegram[d] = EmptyTelegram

\* C8 (as claimed): in a call that runs the body, the devices that write
\* their state are exactly those whose obis is in the argument.
C8_NotifiesIffPresent ==
    [][(Called /\ last_call'.forwarded) =>
          written' = {d \in Devices : HasObis(d, last_call'.arg)}]_vars

\* C8 (amended): in a call that runs the body, the devices that write their
\* state are exactly those that were added to the host (self.hass is set)
\* and whose obis is in the argument.
C8_NotifiesIffPresentAndAdded ==
    [][(Called /\ last_call'.forwarded) =>
          written' = {d \in Devices : hass[d] /\ HasObis(d, last_call'.arg)}]_vars

C8_Witness ==
    /\ last_call.forwarded
    /\ written # {}
    /\ \E d \in Devices :
          ~hass[d] /\ HasObis(d, last_call.arg) /\ d \notin written

\* C9: a device whose obis is not in its stored telegram reads absent, as
\* its state and as its unit, under every dialect and precision.
C9_AbsentFieldReadsAbsent ==
    \A d \in Devices :
        ~HasObis(d, telegram[d]) =>
            /\ ReadsAbsent(d)
            /\ unit_of_measurement(ObisOf(d), telegram[d]) = PyNone

C9_Witness ==
    \A d \in Devices : telegram[d] = TelegramGasOnly /\ ~HasObis(d, telegram[d])

\* C10: translate_tariff gives low for "0001" and normal for "0002", the two
\* exchanged under dialect 5B, and absent for every other raw value.
C10_TariffTranslation ==
    (probe.fn = "translate_tariff" /\ probe.done) =>
        probe.result =
            IF probe.value = PyStr(Str0001)
            THEN (IF probe.dsmr_version = "5B" THEN PyStr(StrNormal)
                  ELSE PyStr(StrLow))
            ELSE IF probe.value = PyStr(Str0002)
            THEN (IF probe.dsmr_version = "5B" THEN PyStr(StrLow)
                  ELSE PyStr(StrNormal))
            ELSE PyNone

C10_Witness ==
    /\ probe.fn = "translate_tariff"
    /\ probe.done
    /\ probe.dsmr_version = "5B"
    /\ probe.value = PyStr(Str0001)
    /\ probe.result = PyStr(StrNormal)

\* A raw value float() accepts: a number, or text that float() reads.
IsNumeric(value) ==
    \/ value.kind = "number"
    \/ value.kind = "str" /\ FloatAccepts(value.chars)

\* The signed decimal of a float, in units of 10^-FloatK.
FloatSigned(f) == IF FloatNeg(f) THEN 0 - FloatAbs(f) ELSE FloatAbs(f)

\* r is x rounded to ndigits <= FracDigits fractional digits: a multiple of
\* 10^-ndigits at most half of one away from x (an infinity or a nan is
\* its own rounding).
IsRoundingOf(r, x, ndigits) ==
    IF ~IsFinite(x) THEN r = x
    ELSE /\ r.kind = "float"
         /\ r.chars = <<>>
         /\ r.num % Pow10(FracDigits - ndigits) = 0
         /\ 2 * Abs(r.num * Pow10(FloatK(x) - FracDigits) - FloatSigned(x))
              <= Pow10(FloatK(x) - ndigits)

\* C11 (as claimed): the state of a non-tariff device whose obis is present
\* is the rounded number for a numeric raw value, the raw value itself for
\* any other one (None included), and never an exception.
C11_ValueExtractionNeverRaises ==
    (probe.fn = "state" /\ probe.done) =>
        /\ probe.result.kind \notin {"ValueError", "TypeError"}
        /\ IF IsNumeric(probe.value)
           THEN IsRoundingOf(probe.result, PyFloatOf(probe.value),
                             probe.precision)
           ELSE probe.result = probe.value

\* A reader_factory() call is started in this step.
Connects == attempts' = attempts + 1

\* C12 (as claimed): every connect attempt but the first is started at the
\* end of a reconnect-interval sleep; a failed open is never followed
\* directly by the next attempt.
C12_BackoffAfterFailedOpen ==
    [][Connects => pc \in {"start", "sleep"}]_vars

\* C13 (as claimed): once the host has left the running state, or the task
\* has been cancelled, no reader_factory() call is started.
C13_NoReconnectAfterStop ==
    [][(hass_state # "running" \/ cancelled) => ~Connects]_vars

\* C14 (as claimed): close() of a transport is called by at most one of
\* the stop listener and the task's cancellation handler.
C14_NoDoubleClose ==
    \A h \in Handles : ~({"hook", "supervisor"} \subseteq closers[h])

\* The effect of a call update_entities_telegram(arg) made in this step.
Publishes(arg) ==
    IF ShouldForward(min_time_between_updates, throttle_last, now)
    THEN /\ telegram' = [d \in Devices |-> arg]
         /\ throttle_last' = now
    ELSE UNCHANGED <<telegram, throttle_last>>

\* The session of the task ends in this step: wait_closed() resolves, or
\* the task resumes from the open with its connection lost already.
SessionEnds ==
    /\ ~cancelled
    /\ \/ pc = "wait_closed" /\ pc' # pc
       \/ pc = "opened" /\ pc' \notin {"opened", "wait_closed"}

\* C15: when wait_closed() resolves for a session, the task calls
\* update_entities_telegram({}) and starts a sleep of the reconnect
\* interval in the same step, without a reader_factory() call; while it
\* sleeps the deadline stands, and a reader_factory() call that ends the
\* sleep is made no earlier than the deadline.
C15_BackoffAfterSession ==
    [][/\ SessionEnds =>
            /\ pc' = "sleep"
            /\ ~Connects
            /\ Publishes(EmptyTelegram)
            /\ sleep_until' = now + reconnect_interval
       /\ (pc = "sleep" /\ pc' = "sleep") => sleep_until' = sleep_until
       /\ (pc = "sleep" /\ Connects) => now >= sleep_until]_vars

\* The second attempt was started after a session and a sleep of a
\* positive interval.
C15_Witness ==
    /\ attempts = 2
    /\ tstate[1] = "closed"
    /\ reconnect_interval = 1
    /\ sleep_until >= 1
    /\ now >= sleep_until
    /\ cancelled_in # "sleep"

\* The transports that are connected: opened and not yet closed.
Live == {h \in Handles : tstate[h] \in {"open", "closing"}}

\* C16: at most one transport is live at any time; a reader_factory() call
\* is started only when no transport is live, and none is live while the
\* call is in flight.
C16_SingleConnection ==
    [][/\ Cardinality(Live') <= 1
       /\ Connects => Live = {}
       /\ pc' = "open" => Live' = {}]_vars

\* A second session is running after the first one was closed.
C16_Witness ==
    /\ attempts = 2
    /\ tstate[1] = "closed"
    /\ tstate[2] = "open"
    /\ pc = "wait_closed"

\* C17 (as claimed): a stop listener is registered only while the task is
\* in a session (it awaits wait_closed() of an opened transport), and then
\* it is the listener that closes the transport of that session.
C17_HookFollowsConnection ==
    /\ pc # "wait_closed" => listeners = {}
    /\ pc = "wait_closed" => listeners \subseteq {transport}

\* The session of the task was ended by its transport, after the task
\* began to wait for it or before.
SessionOver ==
    \/ pc = "wait_closed" /\ wait_closed_resolved(tstate, protocol)
    \/ pc = "opened" /\ wait_closed_resolved(tstate, attempts)

\* The task sleeps, and the end of the sleep and one more attempt are
\* inside the bounds of the model.
Sleeping == pc = "sleep" /\ attempts < MaxAttempts /\ sleep_until <= MaxTime

\* C18: the task ends only when it was cancelled or the host is stopping;
\* a failed open of a running host is followed at once by the next
\* reader_factory() call; a session ended by its transport is followed by
\* the sleep, and the sleep ends, with the next reader_factory() call when
\* the host runs, unless the task is cancelled or the host stops first.
C18_StopsOnlyOnRequest ==
    /\ [][/\ (pc # "done" /\ pc' = "done") =>
                (cancelled \/ hass_state = "stopping")
          /\ (pc = "open" /\ <<pc, attempts>>' # <<pc, attempts>>
                /\ pc' \notin {"opened", "sleep"} /\ ~cancelled
                /\ hass_state = "running") => Connects
          /\ (pc = "sleep" /\ pc' # "sleep" /\ ~cancelled
                /\ hass_state = "running") => Connects]_vars
    /\ SessionOver ~> (pc = "sleep" \/ cancelled)
    /\ Sleeping ~> (pc # "sleep" \/ cancelled \/ hass_state # "running")

\* The host runs, the task is not cancelled, and a second attempt follows
\* a session that the transport ended.
C18_Witness ==
    /\ attempts = 2
    /\ pc = "open"
    /\ tstate[1] = "closed"
    /\ closers[1] = {}
    /\ ~cancelled
    /\ hass_state = "running"

\* The task registers a listener and calls it as stop_listener() in one
\* step: the connection was lost before the task resumed from the open, and
\* the host is not stopping.
CallsNewStopListener ==
    /\ pc = "opened" /\ ~cancelled
    /\ pc' = "sleep"
    /\ ~is_stopping

\* The task calls the stop_listener() of an earlier step in this step: after
\* a session, when the host is not stopping, or in the CancelledError
\* handler, when the variable is set.
CallsStopListener ==
    \/ /\ pc = "wait_closed" /\ ~cancelled
       /\ pc' = "sleep"
       /\ ~is_stopping
    \/ /\ cancelled /\ pc \in {"open", "opened", "wait_closed", "sleep"}
       /\ pc' \in {"cancel_wait", "done"}
       /\ stop_listener # NoHandle

\* C19 (as claimed): whenever the task calls stop_listener(), that listener
\* is still registered: it has not fired and the task has not removed it
\* before.
C19_HookReleasedAtMostOnce ==
    [][/\ CallsStopListener => stop_listener \in listeners
       /\ CallsNewStopListener =>
             stop_listener' \notin listeners \cup listeners']_vars

\* C20: an observed call made when a call ran the body no longer ago than
\* the interval leaves the telegram of every device and the time of the
\* last run as they were, and no device writes its state.
C20_SuppressedPublishChangesNothing ==
    [][(Called /\ ~Due) =>
          /\ telegram' = telegram
          /\ throttle_last' = throttle_last
          /\ forward_at' = forward_at
          /\ forwarded_arg' = forwarded_arg
          /\ written' = {}]_vars

\* The latest call was dropped although a device that was added to the host
\* has its obis in the argument and holds another telegram.
C20_Witness ==
    /\ dropped > 0
    /\ ~last_call.forwarded
    /\ written = {}
    /\ \E d \in Devices :
          /\ hass[d]
          /\ HasObis(d, last_call.arg)
          /\ telegram[d] # last_call.arg

====
